---- MODULE Spec2Model ----
(***************************************************************************)
(* A model of SchedulerLibev (lib/Scheduler/SchedulerLibev.cpp): a pool of *)
(* nrThreads libev loops, one scheduler thread per loop, the five watcher  *)
(* kinds with their callbacks, the waker of every loop and the teardown    *)
(* sequence of the destructor.                                             *)
(*                                                                         *)
(* libev is modelled by what its calls do to a loop: ev_X_start registers  *)
(* a watcher and references the loop (activecnt), ev_X_stop clears a       *)
(* pending event, deregisters and unreferences, ev_async_send sets the     *)
(* watcher's sent flag, and ev_loop polls, collects what is ready into the *)
(* pending set and invokes the callbacks one after the other until         *)
(* ev_unloop was called or no watcher is active.                           *)
(***************************************************************************)
EXTENDS Integers, Sequences, FiniteSets, TLC

(***************************************************************************)
(* Bounds of the model.                                                    *)
(***************************************************************************)
NrThreads == 2      \* concurrency: the number of loops and threads
MaxWatchers == 2    \* watcher objects ever allocated with new
NrTasks == 1        \* Task objects of the callers
MaxSends == 3       \* sendAsync calls per watcher
MaxTime == 2        \* ticks of the clock
MaxTimeout == 1     \* largest timeout, offset or interval a caller passes
NrCallers == 2      \* caller threads that own no loop
MaxEvents == 2      \* socket and signal events delivered per watcher

(***************************************************************************)
(* Program constants.                                                      *)
(***************************************************************************)
NULL == 0           \* nullptr: the absent handle, the absent task
MaxWaitPolls == 100 \* the retry budget of the destructor's wait

Loops == 0 .. (NrThreads - 1)
LoopArgs == 0 .. NrThreads          \* what callers pass; NrThreads is invalid
Handles == 1 .. MaxWatchers
Tasks == 1 .. NrTasks
TaskArgs == Tasks \cup {NULL}
Callers == 1 .. NrCallers
Timeouts == 0 .. MaxTimeout

UnknownLoop == "unknown loop"       \* TRI_ERROR_INTERNAL, "unknown loop"
NoError == "none"

EV_READ == "EV_READ"
EV_WRITE == "EV_WRITE"
EV_ASYNC == "EV_ASYNC"
EV_TIMER == "EV_TIMER"
EV_PERIODIC == "EV_PERIODIC"
EV_SIGNAL == "EV_SIGNAL"

EVENT_ASYNC == "EVENT_ASYNC"
EVENT_PERIODIC == "EVENT_PERIODIC"
EVENT_SIGNAL == "EVENT_SIGNAL"
EVENT_SOCKET_READ == "EVENT_SOCKET_READ"
EVENT_SOCKET_WRITE == "EVENT_SOCKET_WRITE"
EVENT_TIMER == "EVENT_TIMER"

EVUNLOOP_CANCEL == "EVUNLOOP_CANCEL"
EVUNLOOP_ALL == "EVUNLOOP_ALL"

VARIABLES
  loopAlive,    \* loopAlive[i]: the poll context _loops[i] exists
  activecnt,    \* activecnt[i]: libev's count of active watchers of loop i
  loop_done,    \* loop_done[i]: libev's unloop flag of loop i
  pendings,     \* pendings[i]: events collected and not yet invoked
  mn_now,       \* mn_now[i]: the loop's cached time
  reg,          \* reg[i]: the watchers in loop i's registration tables
  wakers,       \* wakers[i]: the ev_async _wakers[i]
  pc,           \* pc[i]: where thread i is
  cur,          \* cur[i]: the watcher whose handleEvent thread i runs
  stopping,     \* stopping[i]: the thread's cooperative shutdown flag
  threadObj,    \* threadObj[i]: threads[i] is allocated or deleted
  watchers,     \* watchers[h]: the watcher object behind handle h
  taskActive,   \* taskActive[t]: what Task t answers to isActive()
  sigPending,   \* signal numbers raised and not yet collected
  clock,        \* the time
  dpc,          \* the destructor's position
  di,           \* the destructor's loop counter i
  arrays,       \* the _loops, threads and _wakers arrays
  dlog,         \* the steps the destructor has taken, in order
  cpc,          \* cpc[c]: where caller thread c is in an unsynchronised call
  call,         \* the API call made by the last step, if any
  handled,      \* handled[h]: handleEvent invocations for watcher h
  lastEvent,    \* lastEvent[h]: the mask of the last handleEvent for h
  sends,        \* sends[h]: sendAsync calls on h
  sinceWake,    \* sinceWake[h]: sendAsync calls on h since its loop last woke
  bursts,       \* bursts[h]: wakeups of h's loop that found sends on h
  running,      \* running[i]: handleEvent invocations in progress on loop i
  uaf           \* what has touched released memory, if anything

loopVars == <<loopAlive, activecnt, loop_done, pendings, mn_now, reg, wakers>>
threadVars == <<pc, cur, stopping, threadObj>>
envVars == <<taskActive, sigPending, clock>>
dtorVars == <<dpc, di, arrays, dlog>>
obsVars == <<handled, lastEvent, sends, sinceWake, bursts, running, uaf>>
vars == <<loopVars, threadVars, watchers, envVars, dtorVars, cpc, call, obsVars>>

(***************************************************************************)
(* Watcher objects.                                                        *)
(***************************************************************************)
NoWatcher ==
  [st |-> "none", kind |-> "none", type |-> "none", loop |-> NULL,
   task |-> NULL, active |-> FALSE, sent |-> FALSE, events |-> {},
   at |-> 0, repeat |-> 0, offset |-> 0, interval |-> 0, signum |-> 0]

NoCall == [op |-> "none", loop |-> NULL, h |-> NULL, err |-> NoError, ret |-> NULL]

Call(op, loop, h, err, ret) ==
  [op |-> op, loop |-> loop, h |-> h, err |-> err, ret |-> ret]

\* new XWatcher: the next unused address; released addresses are not reused
FreshHandle ==
  IF \E h \in Handles : watchers[h].st = "none"
  THEN CHOOSE h \in Handles :
         /\ watchers[h].st = "none"
         /\ \A g \in Handles : watchers[g].st = "none" => h <= g
  ELSE NULL

Live(h) == h \in Handles /\ watchers[h].st = "live"
LiveOfKind(k) == {h \in Handles : Live(h) /\ watchers[h].kind = k}
PoolAlive == dpc = "none"

\* a caller thread that is in no call
Idle == [at |-> "idle", h |-> NULL, cnt |-> 0, tab |-> {}]

Pending(h) == \E p \in pendings[watchers[h].loop] : p.w = h

(***************************************************************************)
(* Construction.                                                           *)
(***************************************************************************)
\* a construction that starts no wakers
InitNoWakers ==
  /\ loopAlive = [i \in Loops |-> TRUE]
  /\ activecnt = [i \in Loops |-> 0]
  /\ loop_done = [i \in Loops |-> EVUNLOOP_CANCEL]
  /\ pendings = [i \in Loops |-> {}]
  /\ mn_now = [i \in Loops |-> 0]
  /\ reg = [i \in Loops |-> {}]
  /\ wakers = [i \in Loops |->
                 [st |-> "live", active |-> FALSE, sent |-> FALSE, pending |-> FALSE]]
  /\ pc = [i \in Loops |-> "out"]
  /\ cur = [i \in Loops |-> NULL]
  /\ stopping = [i \in Loops |-> FALSE]
  /\ threadObj = [i \in Loops |-> "live"]
  /\ watchers = [h \in Handles |-> NoWatcher]
  /\ taskActive = [t \in Tasks |-> TRUE]
  /\ sigPending = {}
  /\ clock = 0
  /\ dpc = "none"
  /\ di = 0
  /\ arrays = "live"
  /\ dlog = <<>>
  /\ cpc = [c \in Callers |-> Idle]
  /\ call = NoCall
  /\ handled = [h \in Handles |-> 0]
  /\ lastEvent = [h \in Handles |-> {}]
  /\ sends = [h \in Handles |-> 0]
  /\ sinceWake = [h \in Handles |-> 0]
  /\ bursts = [h \in Handles |-> 0]
  /\ running = [i \in Loops |-> {}]
  /\ uaf = {}

Init ==
  /\ loopAlive = [i \in Loops |-> TRUE]
  /\ activecnt = [i \in Loops |-> 1]
  /\ loop_done = [i \in Loops |-> EVUNLOOP_CANCEL]
  /\ pendings = [i \in Loops |-> {}]
  /\ mn_now = [i \in Loops |-> 0]
  /\ reg = [i \in Loops |-> {}]
  /\ wakers = [i \in Loops |->
                 [st |-> "live", active |-> TRUE, sent |-> FALSE, pending |-> FALSE]]
  /\ pc = [i \in Loops |-> "out"]
  /\ cur = [i \in Loops |-> NULL]
  /\ stopping = [i \in Loops |-> FALSE]
  /\ threadObj = [i \in Loops |-> "live"]
  /\ watchers = [h \in Handles |-> NoWatcher]
  /\ taskActive = [t \in Tasks |-> TRUE]
  /\ sigPending = {}
  /\ clock = 0
  /\ dpc = "none"
  /\ di = 0
  /\ arrays = "live"
  /\ dlog = <<>>
  /\ cpc = [c \in Callers |-> Idle]
  /\ call = NoCall
  /\ handled = [h \in Handles |-> 0]
  /\ lastEvent = [h \in Handles |-> {}]
  /\ sends = [h \in Handles |-> 0]
  /\ sinceWake = [h \in Handles |-> 0]
  /\ bursts = [h \in Handles |-> 0]
  /\ running = [i \in Loops |-> {}]
  /\ uaf = {}

(***************************************************************************)
(* lookupLoop: the loop of an index, or the internal error.                *)
(***************************************************************************)
lookupLoopOffByOne(loop) ==
  IF loop > NrThreads
  THEN [err |-> UnknownLoop, l |-> NULL]
  ELSE [err |-> NoError, l |-> IF loop < NrThreads THEN loop ELSE 0]

lookupLoop(loop) ==
  IF loop >= NrThreads
  THEN [err |-> UnknownLoop, l |-> NULL]
  ELSE [err |-> NoError, l |-> loop]

Max(a, b) == IF a >= b THEN a ELSE b

(***************************************************************************)
(* The callbacks: the event mask handed to task->handleEvent, or {} when   *)
(* the callback returns without calling it.                                *)
(***************************************************************************)
\* a callback that tests the wrong libev flag
asyncCallbackWrongFlag(w, revents) ==
  IF /\ watchers[w].task # NULL
     /\ EV_TIMER \in revents
     /\ taskActive[watchers[w].task]
  THEN {EVENT_ASYNC}
  ELSE {}

asyncCallback(w, revents) ==
  IF /\ watchers[w].task # NULL
     /\ EV_ASYNC \in revents
     /\ taskActive[watchers[w].task]
  THEN {EVENT_ASYNC}
  ELSE {}

\* a callback that does not ask the task
socketCallbackAnyTask(w, revents) ==
  IF EV_READ \in revents
  THEN IF EV_WRITE \in revents
       THEN {EVENT_SOCKET_READ, EVENT_SOCKET_WRITE}
       ELSE {EVENT_SOCKET_READ}
  ELSE IF EV_WRITE \in revents
       THEN {EVENT_SOCKET_WRITE}
       ELSE {}

\* a callback that reports a readable descriptor as readable only
socketCallbackReadFirst(w, revents) ==
  IF watchers[w].task # NULL /\ taskActive[watchers[w].task]
  THEN IF EV_READ \in revents
       THEN {EVENT_SOCKET_READ}
       ELSE IF EV_WRITE \in revents
            THEN {EVENT_SOCKET_WRITE}
            ELSE {}
  ELSE {}

socketCallback(w, revents) ==
  IF watchers[w].task # NULL /\ taskActive[watchers[w].task]
  THEN IF EV_READ \in revents
       THEN IF EV_WRITE \in revents
            THEN {EVENT_SOCKET_READ, EVENT_SOCKET_WRITE}
            ELSE {EVENT_SOCKET_READ}
       ELSE IF EV_WRITE \in revents
            THEN {EVENT_SOCKET_WRITE}
            ELSE {}
  ELSE {}

periodicCallback(w, revents) ==
  IF /\ watchers[w].task # NULL
     /\ EV_PERIODIC \in revents
     /\ taskActive[watchers[w].task]
  THEN {EVENT_PERIODIC}
  ELSE {}

signalCallback(w, revents) ==
  IF /\ watchers[w].task # NULL
     /\ EV_SIGNAL \in revents
     /\ taskActive[watchers[w].task]
  THEN {EVENT_SIGNAL}
  ELSE {}

timerCallback(w, revents) ==
  IF /\ watchers[w].task # NULL
     /\ EV_TIMER \in revents
     /\ taskActive[watchers[w].task]
  THEN {EVENT_TIMER}
  ELSE {}

\* the callback given to ev_X_init for the watcher's struct
Callback(w, revents) ==
  CASE watchers[w].kind = "async" -> asyncCallback(w, revents)
    [] watchers[w].kind = "socket" -> socketCallback(w, revents)
    [] watchers[w].kind = "periodic" -> periodicCallback(w, revents)
    [] watchers[w].kind = "signal" -> signalCallback(w, revents)
    [] watchers[w].kind = "timer" -> timerCallback(w, revents)
    [] OTHER -> {}

\* a waker callback that leaves the loop running
wakerCallbackNoUnloop(i) ==
  loop_done

\* wakerCallback: ev_unloop(loop, EVUNLOOP_ALL)
wakerCallback(i) ==
  [loop_done EXCEPT ![i] = EVUNLOOP_ALL]

(***************************************************************************)
(* ev_loop(l, 0), one step at a time.                                      *)
(***************************************************************************)
Registered(i, k) ==
  {h \in reg[i] : watchers[h].st = "live" /\ watchers[h].active /\ watchers[h].kind = k}

ExpiredTimers(i) == {h \in Registered(i, "timer") : watchers[h].at <= clock}
ExpiredPeriodics(i) == {h \in Registered(i, "periodic") : watchers[h].at <= clock}
SentAsyncs(i) == {h \in Registered(i, "async") : watchers[h].sent}
Signalled(i) == {h \in Registered(i, "signal") : watchers[h].signum \in sigPending}
\* one-shot timers and periodics that stop when they expire
Stopping(i) ==
  {h \in ExpiredTimers(i) : watchers[h].repeat = 0}
    \cup {h \in ExpiredPeriodics(i) : watchers[h].interval = 0}

\* the next point offset + k * interval after the time t
NextPeriodic(offset, interval, t) ==
  CHOOSE x \in (t + 1) .. (t + interval) : (x - offset) % interval = 0

\* the watcher after the loop collected its event
Collected(h) ==
  LET w == watchers[h] IN
  CASE w.kind = "async" -> [w EXCEPT !.sent = FALSE]
    [] w.kind = "timer" ->
         IF w.repeat > 0
         THEN [w EXCEPT !.at = Max(w.at + w.repeat, clock)]
         ELSE [w EXCEPT !.active = FALSE]
    [] w.kind = "periodic" ->
         IF w.interval > 0
         THEN [w EXCEPT !.at = NextPeriodic(w.offset, w.interval, clock)]
         ELSE [w EXCEPT !.active = FALSE]
    [] OTHER -> w

\* the poll returns: what is ready is collected into the pending set
Wake(i, fdev) ==
  /\ pc[i] = "wait"
  /\ loopAlive[i]
  /\ LET io == {h \in DOMAIN fdev : fdev[h] \cap watchers[h].events # {}}
         timed == ExpiredTimers(i) \cup ExpiredPeriodics(i)
         sig == Signalled(i)
         asy == SentAsyncs(i)
         wk == wakers[i].active /\ wakers[i].sent
     IN /\ wk \/ (io \cup timed \cup sig \cup asy) # {}
        /\ \A h \in io \cup sig : handled[h] < MaxEvents
        /\ pendings' = [pendings EXCEPT ![i] =
              @ \cup {[w |-> h, revents |-> fdev[h] \cap watchers[h].events] : h \in io}
                \cup {[w |-> h, revents |-> {EV_TIMER}] : h \in ExpiredTimers(i)}
                \cup {[w |-> h, revents |-> {EV_PERIODIC}] : h \in ExpiredPeriodics(i)}
                \cup {[w |-> h, revents |-> {EV_SIGNAL}] : h \in sig}
                \cup {[w |-> h, revents |-> {EV_ASYNC}] : h \in asy}]
        /\ watchers' = [h \in Handles |->
              IF h \in timed \cup asy THEN Collected(h) ELSE watchers[h]]
        /\ reg' = [reg EXCEPT ![i] = @ \ Stopping(i)]
        /\ activecnt' = [activecnt EXCEPT ![i] = @ - Cardinality(Stopping(i))]
        /\ wakers' = [wakers EXCEPT ![i].sent = FALSE,
                                    ![i].pending = @ \/ wk]
        /\ sigPending' = sigPending \ {watchers[h].signum : h \in sig}
        /\ bursts' = [h \in Handles |->
              IF h \in Registered(i, "async") /\ sinceWake[h] >= 1
              THEN bursts[h] + 1 ELSE bursts[h]]
        /\ sinceWake' = [h \in Handles |->
              IF h \in Registered(i, "async") THEN 0 ELSE sinceWake[h]]
  /\ mn_now' = [mn_now EXCEPT ![i] = clock]
  /\ pc' = [pc EXCEPT ![i] = "dispatch"]
  /\ call' = NoCall
  /\ UNCHANGED <<loopAlive, loop_done, cur, stopping, threadObj, taskActive, clock,
                 dtorVars, cpc, handled, lastEvent, sends, running, uaf>>

\* the pending waker event is invoked
InvokeWaker(i) ==
  /\ pc[i] = "dispatch"
  /\ loopAlive[i]
  /\ wakers[i].pending
  /\ wakers' = [wakers EXCEPT ![i].pending = FALSE]
  /\ loop_done' = wakerCallback(i)
  /\ call' = NoCall
  /\ UNCHANGED <<loopAlive, activecnt, pendings, mn_now, reg, threadVars, watchers,
                 envVars, dtorVars, cpc, obsVars>>

\* callbacks handed to other threads instead of being called in place
CanInvokeDetached(i) == pc[i] \in {"dispatch", "handler"}

\* one pending event is invoked: its callback runs on the loop's thread, which
\* calls task->handleEvent in place and goes on when it has returned
CanInvoke(i) == pc[i] = "dispatch"

InvokePending(i, p) ==
  /\ CanInvoke(i)
  /\ loopAlive[i]
  /\ p \in pendings[i]
  /\ pendings' = [pendings EXCEPT ![i] = @ \ {p}]
  /\ LET mask == Callback(p.w, p.revents) IN
     IF mask # {}
     THEN /\ pc' = [pc EXCEPT ![i] = "handler"]
          /\ cur' = [cur EXCEPT ![i] = p.w]
          /\ running' = [running EXCEPT ![i] = @ \cup {p.w}]
          /\ handled' = [handled EXCEPT ![p.w] = @ + 1]
          /\ lastEvent' = [lastEvent EXCEPT ![p.w] = mask]
     ELSE UNCHANGED <<pc, cur, running, handled, lastEvent>>
  /\ call' = NoCall
  /\ UNCHANGED <<loopAlive, activecnt, loop_done, mn_now, reg, wakers, stopping,
                 threadObj, watchers, envVars, dtorVars, cpc, sends, sinceWake,
                 bursts, uaf>>

\* task->handleEvent returns
HandlerReturn(i) ==
  /\ pc[i] = "handler"
  /\ pc' = [pc EXCEPT ![i] = "dispatch"]
  /\ running' = [running EXCEPT ![i] = @ \ {cur[i]}]
  /\ cur' = [cur EXCEPT ![i] = NULL]
  /\ call' = NoCall
  /\ UNCHANGED <<loopVars, stopping, threadObj, watchers, envVars, dtorVars, cpc,
                 handled, lastEvent, sends, sinceWake, bursts, uaf>>

NothingPending(i) == pendings[i] = {} /\ ~wakers[i].pending

\* the end of an iteration: while (activecnt && !loop_done)
LoopAgain(i) ==
  /\ pc[i] = "dispatch"
  /\ loopAlive[i]
  /\ NothingPending(i)
  /\ activecnt[i] > 0 /\ loop_done[i] = EVUNLOOP_CANCEL
  /\ pc' = [pc EXCEPT ![i] = "wait"]
  /\ mn_now' = [mn_now EXCEPT ![i] = clock]
  /\ call' = NoCall
  /\ UNCHANGED <<loopAlive, activecnt, loop_done, pendings, reg, wakers, cur,
                 stopping, threadObj, watchers, envVars, dtorVars, cpc, obsVars>>

LoopReturn(i) ==
  /\ pc[i] = "dispatch"
  /\ loopAlive[i]
  /\ NothingPending(i)
  /\ ~(activecnt[i] > 0 /\ loop_done[i] = EVUNLOOP_CANCEL)
  /\ pc' = [pc EXCEPT ![i] = "out"]
  /\ call' = NoCall
  /\ UNCHANGED <<loopVars, cur, stopping, threadObj, watchers, envVars, dtorVars,
                 cpc, obsVars>>

(***************************************************************************)
(* eventLoop(loop): lookupLoop, then ev_loop(l, 0) on the thread of the    *)
(* loop.                                                                   *)
(***************************************************************************)
\* an eventLoop that starts from a clean waker
eventLoopCleanStart(loop) ==
  /\ loop \in Loops
  /\ pc[loop] = "out"
  /\ loopAlive[loop]
  /\ pc' = [pc EXCEPT ![loop] = "wait"]
  /\ loop_done' = [loop_done EXCEPT ![loop] = EVUNLOOP_CANCEL]
  /\ mn_now' = [mn_now EXCEPT ![loop] = clock]
  /\ wakers' = [wakers EXCEPT ![loop].sent = FALSE]
  /\ call' = Call("eventLoop", loop, NULL, NoError, NULL)
  /\ UNCHANGED <<loopAlive, activecnt, pendings, reg, cur, stopping,
                 threadObj, watchers, envVars, dtorVars, cpc, obsVars>>

eventLoop(loop) ==
  LET l == lookupLoop(loop).l IN
  IF lookupLoop(loop).err # NoError
  THEN /\ call' = Call("eventLoop", loop, NULL, lookupLoop(loop).err, NULL)
       /\ UNCHANGED <<loopVars, threadVars, watchers, envVars, dtorVars, cpc, obsVars>>
  ELSE /\ pc[l] = "out"
       /\ loopAlive[l]
       /\ pc' = [pc EXCEPT ![l] = "wait"]
       /\ loop_done' = [loop_done EXCEPT ![l] = EVUNLOOP_CANCEL]
       /\ mn_now' = [mn_now EXCEPT ![l] = clock]
       /\ call' = Call("eventLoop", loop, NULL, NoError, NULL)
       /\ UNCHANGED <<loopAlive, activecnt, pendings, reg, wakers, cur, stopping,
                      threadObj, watchers, envVars, dtorVars, cpc, obsVars>>

\* the thread's run loop: eventLoop(i) until it is told to stop
ThreadRun(i) ==
  /\ ~stopping[i]
  /\ threadObj[i] = "live"
  /\ eventLoop(i)

(***************************************************************************)
(* wakeupLoop(loop): ev_async_send on the loop's waker.                    *)
(***************************************************************************)
wakeupLoop(loop) ==
  IF loop >= NrThreads
  THEN /\ call' = Call("wakeupLoop", loop, NULL, UnknownLoop, NULL)
       /\ UNCHANGED <<loopVars, threadVars, watchers, envVars, dtorVars, cpc, obsVars>>
  ELSE /\ wakers[loop].st = "live"
       /\ wakers' = [wakers EXCEPT ![loop].sent = TRUE]
       /\ call' = Call("wakeupLoop", loop, NULL, NoError, NULL)
       /\ UNCHANGED <<loopAlive, activecnt, loop_done, pendings, mn_now, reg,
                      threadVars, watchers, envVars, dtorVars, cpc, obsVars>>

(***************************************************************************)
(* libev's start and stop of a watcher, as what they do to its loop.       *)
(***************************************************************************)
\* ev_X_start: register with the loop and reference it
\* a start that registers with the default loop
RegAfterStartDefault(h, l) == [reg EXCEPT ![0] = @ \cup {h}]
RegAfterStart(h, l) == [reg EXCEPT ![l] = @ \cup {h}]
CntAfterStart(h, l) == [activecnt EXCEPT ![l] = @ + 1]

\* ev_X_stop: clear the pending event; if active, deregister and unreference
PendAfterStop(h) ==
  [pendings EXCEPT ![watchers[h].loop] = {p \in @ : p.w # h}]
RegAfterStop(h) ==
  IF watchers[h].active THEN [reg EXCEPT ![watchers[h].loop] = @ \ {h}] ELSE reg
CntAfterStop(h) ==
  IF watchers[h].active
  THEN [activecnt EXCEPT ![watchers[h].loop] = @ - 1]
  ELSE activecnt

NoOpStops(op, h) ==
  /\ call' = Call(op, NULL, h, NoError, NULL)
  /\ reg' = [l \in Loops |-> {}]
  /\ UNCHANGED <<loopAlive, activecnt, loop_done, pendings, mn_now, wakers,
                 threadVars, watchers, envVars, dtorVars, cpc, obsVars>>

\* the early return of a call with the absent handle
NoOp(op, h) ==
  /\ call' = Call(op, NULL, h, NoError, NULL)
  /\ UNCHANGED <<loopVars, threadVars, watchers, envVars, dtorVars, cpc, obsVars>>

(***************************************************************************)
(* The install operations: new XWatcher, lookupLoop, ev_X_init and         *)
(* ev_X_start.  When lookupLoop throws, the watcher allocated before it is *)
(* neither registered nor returned nor released.                           *)
(***************************************************************************)
Install(op, loop, Rec(_)) ==
  /\ PoolAlive
  /\ FreshHandle # NULL
  /\ LET h == FreshHandle
         l == lookupLoop(loop).l
     IN IF lookupLoop(loop).err # NoError
        THEN /\ watchers' = [watchers EXCEPT ![h] =
                   [NoWatcher EXCEPT !.st = "leaked", !.kind = Rec(0).kind,
                                     !.type = Rec(0).type]]
             /\ call' = Call(op, loop, NULL, lookupLoop(loop).err, NULL)
             /\ UNCHANGED <<reg, activecnt>>
        ELSE /\ watchers' = [watchers EXCEPT ![h] =
                   [Rec(l) EXCEPT !.st = "live", !.loop = l, !.active = TRUE]]
             /\ reg' = RegAfterStart(h, l)
             /\ activecnt' = CntAfterStart(h, l)
             /\ call' = Call(op, loop, NULL, NoError, h)
  /\ UNCHANGED <<loopAlive, loop_done, pendings, mn_now, wakers, threadVars, envVars,
                 dtorVars, cpc, obsVars>>

AsyncWatcher(task) ==
  [NoWatcher EXCEPT !.kind = "async", !.type = EVENT_ASYNC, !.task = task]

installAsyncEvent(loop, task) ==
  LET Rec(l) == AsyncWatcher(task) IN Install("installAsyncEvent", loop, Rec)

PeriodicWatcher(task, offset, interval) ==
  [NoWatcher EXCEPT !.kind = "periodic", !.type = EVENT_PERIODIC, !.task = task,
                    !.offset = offset, !.interval = interval]

\* ev_periodic_start: the absolute time of the next trigger
PeriodicAt(offset, interval, now) ==
  IF interval > 0 THEN NextPeriodic(offset, interval, now) ELSE offset

installPeriodicEvent(loop, task, offset, interval) ==
  LET Rec(l) == [PeriodicWatcher(task, offset, interval) EXCEPT
                   !.at = PeriodicAt(offset, interval, mn_now[l])]
  IN Install("installPeriodicEvent", loop, Rec)

SignalWatcher(task, signal) ==
  [NoWatcher EXCEPT !.kind = "signal", !.type = EVENT_SIGNAL, !.task = task,
                    !.signum = signal]

installSignalEvent(loop, task, signal) ==
  LET Rec(l) == SignalWatcher(task, signal) IN Install("installSignalEvent", loop, Rec)

\* a socket watcher tagged as a write watcher
SocketWatcherWriteTag(task) ==
  [NoWatcher EXCEPT !.kind = "socket", !.type = EVENT_SOCKET_WRITE, !.task = task]

SocketWatcher(task) ==
  [NoWatcher EXCEPT !.kind = "socket", !.type = EVENT_SOCKET_READ, !.task = task]

\* the libev flags of an interest mask
SocketFlags(type) ==
  (IF EVENT_SOCKET_READ \in type THEN {EV_READ} ELSE {})
    \cup (IF EVENT_SOCKET_WRITE \in type THEN {EV_WRITE} ELSE {})

installSocketEvent(loop, type, task) ==
  LET Rec(l) == [SocketWatcher(task) EXCEPT !.events = SocketFlags(type)]
  IN Install("installSocketEvent", loop, Rec)

TimerWatcher(task) ==
  [NoWatcher EXCEPT !.kind = "timer", !.type = EVENT_TIMER, !.task = task]

\* a timer initialised with its timeout as repeat value too
installTimerEventRepeating(loop, task, timeout) ==
  LET Rec(l) == [TimerWatcher(task) EXCEPT !.at = mn_now[l] + timeout,
                                           !.repeat = timeout]
  IN Install("installTimerEvent", loop, Rec)

\* ev_timer_init(w, cb, timeout, 0.0) and ev_timer_start: at = mn_now + after
installTimerEvent(loop, task, timeout) ==
  LET Rec(l) == [TimerWatcher(task) EXCEPT !.at = mn_now[l] + timeout, !.repeat = 0]
  IN Install("installTimerEvent", loop, Rec)

(***************************************************************************)
(* uninstallEvent: the switch on the watcher's type tag; every case stops  *)
(* the watcher and deletes it.                                             *)
(***************************************************************************)
UninstallCases ==
  {EVENT_ASYNC, EVENT_PERIODIC, EVENT_SIGNAL, EVENT_SOCKET_READ, EVENT_TIMER}

uninstallEvent(watcher) ==
  IF watcher = NULL
  THEN NoOp("uninstallEvent", watcher)
  ELSE /\ Live(watcher)
       /\ IF watchers[watcher].type \in UninstallCases
          THEN /\ pendings' = PendAfterStop(watcher)
               /\ reg' = RegAfterStop(watcher)
               /\ activecnt' = CntAfterStop(watcher)
               /\ watchers' = [watchers EXCEPT ![watcher].st = "freed",
                                               ![watcher].active = FALSE]
          ELSE UNCHANGED <<pendings, reg, activecnt, watchers>>
       /\ call' = Call("uninstallEvent", NULL, watcher, NoError, NULL)
       /\ UNCHANGED <<loopAlive, loop_done, mn_now, wakers, threadVars, envVars,
                      dtorVars, cpc, obsVars>>

(***************************************************************************)
(* sendAsync: ev_async_send on the watcher.                                *)
(***************************************************************************)
sendAsync(token) ==
  IF token = NULL
  THEN NoOp("sendAsync", token)
  ELSE /\ Live(token) /\ watchers[token].kind = "async"
       /\ sends[token] < MaxSends
       /\ watchers' = [watchers EXCEPT ![token].sent = TRUE]
       /\ sends' = [sends EXCEPT ![token] = @ + 1]
       /\ sinceWake' = [sinceWake EXCEPT ![token] = @ + 1]
       /\ call' = Call("sendAsync", NULL, token, NoError, NULL)
       /\ UNCHANGED <<loopVars, threadVars, envVars, dtorVars, cpc, handled,
                      lastEvent, bursts, running, uaf>>

(***************************************************************************)
(* rearmPeriodic: ev_periodic_set, then ev_periodic_again (stop and start).*)
(***************************************************************************)
rearmPeriodic(token, offset, interval) ==
  IF token = NULL
  THEN NoOp("rearmPeriodic", token)
  ELSE /\ Live(token) /\ watchers[token].kind = "periodic"
       /\ LET l == watchers[token].loop IN
          /\ pendings' = PendAfterStop(token)
          /\ reg' = RegAfterStart(token, l)
          /\ activecnt' = IF watchers[token].active
                          THEN activecnt ELSE CntAfterStart(token, l)
          /\ watchers' = [watchers EXCEPT
                ![token].offset = offset,
                ![token].interval = interval,
                ![token].at = PeriodicAt(offset, interval, mn_now[l]),
                ![token].active = TRUE]
       /\ call' = Call("rearmPeriodic", NULL, token, NoError, NULL)
       /\ UNCHANGED <<loopAlive, loop_done, mn_now, wakers, threadVars, envVars,
                      dtorVars, cpc, obsVars>>

(***************************************************************************)
(* startSocketEvents and stopSocketEvents.                                 *)
(***************************************************************************)
\* a start that does not ask ev_is_active
startSocketEventsAgain(token) ==
  /\ Live(token) /\ watchers[token].kind = "socket"
  /\ reg' = RegAfterStart(token, watchers[token].loop)
  /\ activecnt' = CntAfterStart(token, watchers[token].loop)
  /\ watchers' = [watchers EXCEPT ![token].active = TRUE]
  /\ call' = Call("startSocketEvents", NULL, token, NoError, NULL)
  /\ UNCHANGED <<loopAlive, loop_done, pendings, mn_now, wakers, threadVars,
                 envVars, dtorVars, cpc, obsVars>>

startSocketEvents(token) ==
  IF token = NULL
  THEN NoOp("startSocketEvents", token)
  ELSE /\ Live(token) /\ watchers[token].kind = "socket"
       /\ IF ~watchers[token].active
          THEN /\ reg' = RegAfterStart(token, watchers[token].loop)
               /\ activecnt' = CntAfterStart(token, watchers[token].loop)
               /\ watchers' = [watchers EXCEPT ![token].active = TRUE]
          ELSE UNCHANGED <<reg, activecnt, watchers>>
       /\ call' = Call("startSocketEvents", NULL, token, NoError, NULL)
       /\ UNCHANGED <<loopAlive, loop_done, pendings, mn_now, wakers, threadVars,
                      envVars, dtorVars, cpc, obsVars>>

stopSocketEvents(token) ==
  IF token = NULL
  THEN NoOp("stopSocketEvents", token)
  ELSE /\ Live(token) /\ watchers[token].kind = "socket"
       /\ IF watchers[token].active
          THEN /\ pendings' = PendAfterStop(token)
               /\ reg' = RegAfterStop(token)
               /\ activecnt' = CntAfterStop(token)
               /\ watchers' = [watchers EXCEPT ![token].active = FALSE]
          ELSE UNCHANGED <<pendings, reg, activecnt, watchers>>
       /\ call' = Call("stopSocketEvents", NULL, token, NoError, NULL)
       /\ UNCHANGED <<loopAlive, loop_done, mn_now, wakers, threadVars, envVars,
                      dtorVars, cpc, obsVars>>

(***************************************************************************)
(* clearTimer: ev_timer_stop.  rearmTimer: ev_timer_set(w, 0.0, timeout),  *)
(* then ev_timer_again.                                                    *)
(***************************************************************************)
clearTimer(token) ==
  IF token = NULL
  THEN NoOp("clearTimer", token)
  ELSE /\ Live(token) /\ watchers[token].kind = "timer"
       /\ pendings' = PendAfterStop(token)
       /\ reg' = RegAfterStop(token)
       /\ activecnt' = CntAfterStop(token)
       /\ watchers' = [watchers EXCEPT ![token].active = FALSE]
       /\ call' = Call("clearTimer", NULL, token, NoError, NULL)
       /\ UNCHANGED <<loopAlive, loop_done, mn_now, wakers, threadVars, envVars,
                      dtorVars, cpc, obsVars>>

rearmTimer(token, timeout) ==
  IF token = NULL
  THEN NoOp("rearmTimer", token)
  ELSE /\ Live(token) /\ watchers[token].kind = "timer"
       /\ LET l == watchers[token].loop IN
          /\ pendings' = PendAfterStop(token)
          /\ IF timeout > 0
             THEN \* repeat is set: the timer runs, timeout from the loop's time
                  /\ reg' = RegAfterStart(token, l)
                  /\ activecnt' = IF watchers[token].active
                                  THEN activecnt ELSE CntAfterStart(token, l)
                  /\ watchers' = [watchers EXCEPT
                        ![token].repeat = timeout,
                        ![token].at = mn_now[l] + timeout,
                        ![token].active = TRUE]
             ELSE \* no repeat: ev_timer_again stops an active timer
                  /\ reg' = RegAfterStop(token)
                  /\ activecnt' = CntAfterStop(token)
                  /\ watchers' = [watchers EXCEPT
                        ![token].repeat = 0,
                        ![token].active = FALSE]
       /\ call' = Call("rearmTimer", NULL, token, NoError, NULL)
       /\ UNCHANGED <<loopAlive, loop_done, mn_now, wakers, threadVars, envVars,
                      dtorVars, cpc, obsVars>>

(***************************************************************************)
(* The environment: the clock, the tasks, the signals.                     *)
(***************************************************************************)
Tick ==
  /\ clock < MaxTime
  /\ clock' = clock + 1
  /\ call' = NoCall
  /\ UNCHANGED <<loopVars, threadVars, watchers, taskActive, sigPending, dtorVars,
                 cpc, obsVars>>

\* a task begins tearing down: isActive() answers false from now on
TaskDeactivate(t) ==
  /\ taskActive[t]
  /\ taskActive' = [taskActive EXCEPT ![t] = FALSE]
  /\ call' = NoCall
  /\ UNCHANGED <<loopVars, threadVars, watchers, sigPending, clock, dtorVars, cpc,
                 obsVars>>

(***************************************************************************)
(* The steps of the thread of loop i.                                      *)
(***************************************************************************)
FdEvents(i) == [Registered(i, "socket") -> SUBSET {EV_READ, EV_WRITE}]

LoopStep(i) ==
  \/ ThreadRun(i)
  \/ \E fdev \in FdEvents(i) : Wake(i, fdev)
  \/ InvokeWaker(i)
  \/ \E p \in pendings[i] : InvokePending(i, p)
  \/ HandlerReturn(i)
  \/ LoopAgain(i)
  \/ LoopReturn(i)

(***************************************************************************)
(* Async watchers on a running pool: callers install, signal and uninstall *)
(* them while the threads run their loops.                                 *)
(***************************************************************************)
MaxAsync == 1       \* async watchers installed in this scenario

NextAsync ==
  \/ \E i \in Loops : ThreadRun(i)
  \/ \E i \in Loops : Wake(i, <<>>)
  \/ \E i \in Loops : \E p \in pendings[i] : InvokePending(i, p)
  \/ \E i \in Loops : HandlerReturn(i)
  \/ \E i \in Loops : LoopAgain(i)
  \/ \E loop \in Loops, task \in Tasks :
       /\ Cardinality({h \in Handles : watchers[h].st # "none"}) < MaxAsync
       /\ installAsyncEvent(loop, task)
  \/ \E h \in LiveOfKind("async") : sendAsync(h)
  \/ \E h \in LiveOfKind("async") : uninstallEvent(h)

SpecAsync == Init /\ [][NextAsync]_vars

\* C1: for an installed async watcher with an active task, every wakeup of its
\* loop that finds one or more sendAsync calls made since the previous wakeup
\* leads to exactly one handleEvent(watcher, EVENT_ASYNC): the invocations made
\* and the one still pending add up to the number of such wakeups, however
\* many calls each of them found.
AsyncCoalesces ==
  \A h \in LiveOfKind("async") :
    (watchers[h].task # NULL /\ taskActive[watchers[h].task]) =>
      /\ handled[h] + (IF Pending(h) THEN 1 ELSE 0) = bursts[h]
      /\ handled[h] > 0 => lastEvent[h] = {EVENT_ASYNC}
      /\ (sinceWake[h] = 0 /\ ~Pending(h)) => ~watchers[h].sent
      /\ sinceWake[h] > 0 => watchers[h].sent

\* three calls, two of them before one wakeup and one after it: two invocations
AsyncCoalescesWitness ==
  \E h \in LiveOfKind("async") :
    /\ watchers[h].task # NULL
    /\ sends[h] = 3 /\ sinceWake[h] = 0 /\ ~Pending(h)
    /\ bursts[h] = 2 /\ handled[h] = 2

(***************************************************************************)
(* Waking a loop: callers signal the wakers and async watchers while the   *)
(* threads run their loops.  Every thread is scheduled again and again and *)
(* a handler it has called returns.                                        *)
(***************************************************************************)
NextWake ==
  \/ \E i \in Loops : LoopStep(i)
  \/ \E loop \in Loops : wakeupLoop(loop)
  \/ \E loop \in Loops, task \in Tasks :
       /\ Cardinality({h \in Handles : watchers[h].st # "none"}) < MaxAsync
       /\ installAsyncEvent(loop, task)
  \/ \E h \in LiveOfKind("async") : sendAsync(h)

SpecWake ==
  Init /\ [][NextWake]_vars /\ \A i \in Loops : WF_vars(LoopStep(i))

\* C2: whenever the waker of loop i has been signalled while the thread of
\* loop i is blocked in the poll of eventLoop(i), eventLoop(i) returns to its
\* caller; no timer and no I/O event is needed for it.
WakeupReturns ==
  \A i \in Loops : (pc[i] = "wait" /\ wakers[i].sent) ~> (pc[i] = "out")

\* wakeupLoop(i) has just been called, with thread i blocked in its poll
WakeupReturnsWitness ==
  \E i \in Loops :
    /\ call.op = "wakeupLoop" /\ call.loop = i /\ call.err = NoError
    /\ pc[i] = "wait" /\ wakers[i].sent

(***************************************************************************)
(* Dispatch: async and timer watchers of several loops, installed,         *)
(* signalled, rearmed and uninstalled by callers while the threads run     *)
(* their loops.  The clock stands still: a timer with timeout 0 is due at  *)
(* the next poll, any other timer stays pending.                           *)
(***************************************************************************)
MaxDispatch == 2    \* watchers installed in this scenario
MaxDispatchSends == 1   \* sendAsync calls per watcher in this scenario

NextDispatch ==
  \/ \E i \in Loops : ThreadRun(i)
  \/ \E i \in Loops : Wake(i, <<>>)
  \/ \E i \in Loops : \E p \in pendings[i] : InvokePending(i, p)
  \/ \E i \in Loops : HandlerReturn(i)
  \/ \E i \in Loops : LoopAgain(i)
  \/ \E loop \in Loops, task \in Tasks :
       /\ LiveOfKind("async") = {}
       /\ Cardinality({h \in Handles : watchers[h].st # "none"}) < MaxDispatch
       /\ installAsyncEvent(loop, task)
  \/ \E loop \in Loops, task \in Tasks, timeout \in Timeouts :
       /\ Cardinality({h \in Handles : watchers[h].st # "none"}) < MaxDispatch
       /\ installTimerEvent(loop, task, timeout)
  \/ \E h \in LiveOfKind("async") : sends[h] < MaxDispatchSends /\ sendAsync(h)
  \/ \E h \in LiveOfKind("timer"), timeout \in Timeouts : rearmTimer(h, timeout)
  \/ \E h \in Handles : Live(h) /\ uninstallEvent(h)

SpecDispatch == Init /\ [][NextDispatch]_vars

\* C3: on every loop at most one handleEvent invocation is in progress at any
\* time, whatever calls are made meanwhile.
OneAtATime ==
  \A i \in Loops : Cardinality(running[i]) <= 1

\* a handler runs on loop i while another event of loop i is pending and a
\* caller has just made a call
OneAtATimeWitness ==
  \E i \in Loops :
    /\ running[i] # {} /\ pendings[i] # {}
    /\ call.op \in {"sendAsync", "rearmTimer", "installTimerEvent", "uninstallEvent"}

(***************************************************************************)
(* Calls from threads that own no loop.  installSocketEvent and            *)
(* uninstallEvent take no lock, and ev_io_start and ev_io_stop are plain   *)
(* code: each loads the loop's active count and watcher table, and stores  *)
(* them changed.  Between the load and the store of one caller the other   *)
(* threads run.                                                            *)
(***************************************************************************)
\* new SocketWatcher, lookupLoop, ev_io_init; ev_io_start loads
InstallSocketLoad(c, loop, type, task) ==
  /\ PoolAlive
  /\ cpc[c].at = "idle"
  /\ FreshHandle # NULL
  /\ lookupLoop(loop).err = NoError
  /\ LET h == FreshHandle
         l == lookupLoop(loop).l
     IN /\ watchers' = [watchers EXCEPT ![h] =
              [SocketWatcher(task) EXCEPT !.st = "live", !.loop = l,
                                          !.events = SocketFlags(type)]]
        /\ cpc' = [cpc EXCEPT ![c] =
              [at |-> "start", h |-> h, cnt |-> activecnt[l], tab |-> reg[l]]]
  /\ call' = NoCall
  /\ UNCHANGED <<loopVars, threadVars, envVars, dtorVars, obsVars>>

\* ev_io_start stores; the handle is returned
InstallSocketStore(c) ==
  /\ cpc[c].at = "start"
  /\ LET h == cpc[c].h
         l == watchers[h].loop
     IN /\ activecnt' = [activecnt EXCEPT ![l] = cpc[c].cnt + 1]
        /\ reg' = [reg EXCEPT ![l] = cpc[c].tab \cup {h}]
        /\ watchers' = [watchers EXCEPT ![h].active = TRUE]
        /\ call' = Call("installSocketEvent", l, NULL, NoError, h)
  /\ cpc' = [cpc EXCEPT ![c] = Idle]
  /\ UNCHANGED <<loopAlive, loop_done, pendings, mn_now, wakers, threadVars,
                 envVars, dtorVars, obsVars>>

\* uninstallEvent on a handle no other caller uses; ev_io_stop loads
UninstallSocketLoad(c, h) ==
  /\ cpc[c].at = "idle"
  /\ Live(h) /\ watchers[h].kind = "socket" /\ watchers[h].active
  /\ \A d \in Callers : cpc[d].h # h
  /\ watchers[h].type \in UninstallCases
  /\ LET l == watchers[h].loop IN
       cpc' = [cpc EXCEPT ![c] =
          [at |-> "stop", h |-> h, cnt |-> activecnt[l], tab |-> reg[l]]]
  /\ pendings' = PendAfterStop(h)
  /\ call' = NoCall
  /\ UNCHANGED <<loopAlive, activecnt, loop_done, mn_now, reg, wakers, threadVars,
                 watchers, envVars, dtorVars, obsVars>>

\* ev_io_stop stores; delete w
UninstallSocketStore(c) ==
  /\ cpc[c].at = "stop"
  /\ LET h == cpc[c].h
         l == watchers[h].loop
     IN /\ activecnt' = [activecnt EXCEPT ![l] = cpc[c].cnt - 1]
        /\ reg' = [reg EXCEPT ![l] = cpc[c].tab \ {h}]
        /\ watchers' = [watchers EXCEPT ![h].st = "freed", ![h].active = FALSE]
        /\ call' = Call("uninstallEvent", NULL, h, NoError, NULL)
  /\ cpc' = [cpc EXCEPT ![c] = Idle]
  /\ UNCHANGED <<loopAlive, loop_done, pendings, mn_now, wakers, threadVars,
                 envVars, dtorVars, obsVars>>

NextRace ==
  \/ \E i \in Loops : ThreadRun(i)
  \/ \E i \in Loops : \E fdev \in FdEvents(i) : Wake(i, fdev)
  \/ \E i \in Loops : \E p \in pendings[i] : InvokePending(i, p)
  \/ \E i \in Loops : HandlerReturn(i)
  \/ \E i \in Loops : LoopAgain(i)
  \/ \E c \in Callers, task \in Tasks :
       InstallSocketLoad(c, 0, {EVENT_SOCKET_READ}, task)
  \/ \E c \in Callers : InstallSocketStore(c)
  \/ \E c \in Callers, h \in Handles : UninstallSocketLoad(c, h)
  \/ \E c \in Callers : UninstallSocketStore(c)

SpecRace == Init /\ [][NextRace]_vars

\* the watchers installed on loop l and not uninstalled
NetInstalled(l) ==
  {h \in Handles : Live(h) /\ watchers[h].loop = l /\ watchers[h].active}

\* C4: once every call of the caller threads has completed, the watchers
\* registered with each loop are the ones installed and not uninstalled, and
\* the loop's active count is their number plus one for the waker.
BookkeepingIntact ==
  (\A c \in Callers : cpc[c].at = "idle") =>
    \A l \in Loops :
      /\ reg[l] = NetInstalled(l)
      /\ activecnt[l] = Cardinality(NetInstalled(l)) + 1

(***************************************************************************)
(* The scheduler threads at shutdown.  beginShutdown sets the thread's     *)
(* cooperative flag and wakes its loop, stop asks the thread to stop, and  *)
(* isRunning is true while some thread has not left its run loop.          *)
(***************************************************************************)
StoppingAfterBeginShutdown(i) == [stopping EXCEPT ![i] = TRUE]
WakersAfterBeginShutdown(i) == [wakers EXCEPT ![i].sent = TRUE]
StoppingAfterStop(i) == [stopping EXCEPT ![i] = TRUE]
isRunning == \E i \in Loops : pc[i] # "exited"

\* the thread leaves its run loop
ThreadExit(i) ==
  /\ pc[i] = "out"
  /\ stopping[i]
  /\ pc' = [pc EXCEPT ![i] = "exited"]
  /\ call' = NoCall
  /\ UNCHANGED <<loopVars, cur, stopping, threadObj, watchers, envVars, dtorVars,
                 cpc, obsVars>>

\* a thread still inside ev_loop goes on with a poll context that has been
\* destroyed: it reads released memory, and then it faults or it invokes the
\* callback of a watcher that was still installed
UseAfterDestroy(i, h) ==
  /\ pc[i] \in {"wait", "dispatch"}
  /\ ~loopAlive[i]
  /\ IF h = NULL
     THEN /\ pc' = [pc EXCEPT ![i] = "faulted"]
          /\ uaf' = uaf \cup {[what |-> "loop", id |-> i]}
          /\ UNCHANGED <<cur, running, handled, lastEvent>>
     ELSE /\ Live(h) /\ watchers[h].loop = i /\ watchers[h].active
          /\ handled[h] < MaxEvents
          /\ Callback(h, {EV_TIMER}) # {}
          /\ pc' = [pc EXCEPT ![i] = "handler"]
          /\ cur' = [cur EXCEPT ![i] = h]
          /\ running' = [running EXCEPT ![i] = @ \cup {h}]
          /\ handled' = [handled EXCEPT ![h] = @ + 1]
          /\ lastEvent' = [lastEvent EXCEPT ![h] = Callback(h, {EV_TIMER})]
          /\ uaf' = uaf \cup {[what |-> "loop", id |-> i],
                              [what |-> "delivered", id |-> h]}
  /\ call' = NoCall
  /\ UNCHANGED <<loopVars, stopping, threadObj, watchers, envVars, dtorVars, cpc,
                 sends, sinceWake, bursts>>

(***************************************************************************)
(* ~SchedulerLibev, one statement at a time.                               *)
(***************************************************************************)
Step(op, i) == [op |-> op, i |-> i]

\* the order in which the loops are destroyed: 1 .. nrThreads-1, then 0
DestroyOrderDefaultFirst == [k \in 1 .. NrThreads |-> k - 1]

DestroyOrder == [k \in 1 .. NrThreads |-> IF k < NrThreads THEN k ELSE 0]

DtorUnchanged ==
  UNCHANGED <<loopAlive, loop_done, pendings, mn_now, reg, pc, cur, watchers,
              envVars, cpc, obsVars>>

\* the destructor is called
DtorCall ==
  /\ dpc = "none"
  /\ dpc' = "beginShutdown"
  /\ di' = 0
  /\ call' = NoCall
  /\ UNCHANGED <<loopVars, threadVars, watchers, envVars, arrays, dlog, cpc, obsVars>>

\* threads[i]->beginShutdown()
DtorBeginShutdown ==
  /\ dpc = "beginShutdown"
  /\ stopping' = StoppingAfterBeginShutdown(di)
  /\ wakers' = WakersAfterBeginShutdown(di)
  /\ dlog' = Append(dlog, Step("beginShutdown", di))
  /\ IF di + 1 < NrThreads
     THEN dpc' = dpc /\ di' = di + 1
     ELSE dpc' = "stop" /\ di' = 0
  /\ call' = NoCall
  /\ UNCHANGED <<activecnt, threadObj, arrays>>
  /\ DtorUnchanged

\* threads[i]->stop()
DtorStop ==
  /\ dpc = "stop"
  /\ stopping' = StoppingAfterStop(di)
  /\ dlog' = Append(dlog, Step("stop", di))
  /\ IF di + 1 < NrThreads
     THEN dpc' = dpc /\ di' = di + 1
     ELSE dpc' = "wait" /\ di' = 0
  /\ call' = NoCall
  /\ UNCHANGED <<activecnt, wakers, threadObj, arrays>>
  /\ DtorUnchanged

\* a wait without the retry budget
WaitMoreUnbounded == isRunning

\* i < 100 && isRunning()
WaitMore == di < MaxWaitPolls /\ isRunning

\* usleep(100); ++i
DtorSleep ==
  /\ dpc = "wait"
  /\ WaitMore
  /\ di' = di + 1
  /\ call' = NoCall
  /\ UNCHANGED <<dpc, activecnt, wakers, stopping, threadObj, arrays, dlog>>
  /\ DtorUnchanged

DtorWaitDone ==
  /\ dpc = "wait"
  /\ ~WaitMore
  /\ dlog' = Append(dlog, Step("waited", di))
  /\ dpc' = "wakerStop"
  /\ di' = 1
  /\ call' = NoCall
  /\ UNCHANGED <<activecnt, wakers, stopping, threadObj, arrays>>
  /\ DtorUnchanged

\* ev_async_stop(_loops[i], _wakers[i])
DtorWakerStop ==
  /\ dpc = "wakerStop"
  /\ LET l == DestroyOrder[di] IN
     /\ wakers' = [wakers EXCEPT ![l].active = FALSE, ![l].pending = FALSE]
     /\ activecnt' = [activecnt EXCEPT ![l] = IF wakers[l].active THEN @ - 1 ELSE @]
     /\ dlog' = Append(dlog, Step("wakerStop", l))
  /\ dpc' = "destroy"
  /\ call' = NoCall
  /\ UNCHANGED <<di, stopping, threadObj, arrays>>
  /\ UNCHANGED <<loopAlive, loop_done, pendings, mn_now, reg, pc, cur, watchers,
                 envVars, cpc, obsVars>>

\* ev_loop_destroy(_loops[i]); for loop 0, ev_default_destroy()
DtorLoopDestroy ==
  /\ dpc = "destroy"
  /\ LET l == DestroyOrder[di] IN
     /\ loopAlive' = [loopAlive EXCEPT ![l] = FALSE]
     /\ dlog' = Append(dlog, Step("destroy", l))
  /\ IF di < NrThreads
     THEN dpc' = "wakerStop" /\ di' = di + 1
     ELSE dpc' = "delete" /\ di' = 0
  /\ call' = NoCall
  /\ UNCHANGED <<activecnt, loop_done, pendings, mn_now, reg, wakers, threadVars,
                 watchers, envVars, arrays, cpc, obsVars>>

\* delete threads[i]; delete _wakers[i]
DtorDelete ==
  /\ dpc = "delete"
  /\ threadObj' = [threadObj EXCEPT ![di] = "deleted"]
  /\ wakers' = [wakers EXCEPT ![di].st = "freed"]
  /\ dlog' = dlog \o <<Step("deleteThread", di), Step("deleteWaker", di)>>
  /\ IF di + 1 < NrThreads
     THEN dpc' = dpc /\ di' = di + 1
     ELSE dpc' = "free" /\ di' = 0
  /\ call' = NoCall
  /\ UNCHANGED <<activecnt, stopping, arrays>>
  /\ DtorUnchanged

\* delete[] _loops; delete[] threads; delete[] _wakers
DtorFree ==
  /\ dpc = "free"
  /\ arrays' = "freed"
  /\ dlog' = Append(dlog, Step("freeArrays", 0))
  /\ dpc' = "done"
  /\ call' = NoCall
  /\ UNCHANGED <<di, activecnt, wakers, stopping, threadObj>>
  /\ DtorUnchanged

DtorStep ==
  \/ DtorBeginShutdown
  \/ DtorStop
  \/ DtorSleep
  \/ DtorWaitDone
  \/ DtorWakerStop
  \/ DtorLoopDestroy
  \/ DtorDelete
  \/ DtorFree

(***************************************************************************)
(* Teardown: a caller has installed a timer, the threads run their loops,  *)
(* and the destructor is called at any moment.                             *)
(***************************************************************************)
MaxTeardown == 1    \* watchers installed in this scenario

NextTeardown ==
  \/ \E i \in Loops : LoopStep(i)
  \/ \E i \in Loops : ThreadExit(i)
  \/ \E i \in Loops, h \in Handles \cup {NULL} : UseAfterDestroy(i, h)
  \/ \E loop \in Loops, task \in Tasks, timeout \in Timeouts :
       /\ Cardinality({h \in Handles : watchers[h].st # "none"}) < MaxTeardown
       /\ installTimerEvent(loop, task, timeout)
  \/ DtorCall
  \/ DtorStep

SpecTeardown == Init /\ [][NextTeardown]_vars

\* the destructor, once called, is not held up
SpecTeardownFair == SpecTeardown /\ WF_vars(DtorStep)

\* where the destructor took a step, 0 if it has not taken it
Pos(e) ==
  IF \E k \in 1 .. Len(dlog) : dlog[k] = e
  THEN CHOOSE k \in 1 .. Len(dlog) : dlog[k] = e
  ELSE 0
PosWaited ==
  IF \E k \in 1 .. Len(dlog) : dlog[k].op = "waited"
  THEN CHOOSE k \in 1 .. Len(dlog) : dlog[k].op = "waited"
  ELSE 0
Taken(e) == Pos(e) # 0
Before(a, b) == Taken(b) => (Taken(a) /\ Pos(a) < Pos(b))

\* C5: the destructor's order.  beginShutdown reaches every thread before stop
\* reaches any; every stop and the wait come before any waker is stopped or
\* any poll context destroyed; a loop's waker is stopped before its context is
\* destroyed; loop 0 is destroyed after every other loop; and thread objects,
\* waker objects and the arrays are released after every context is destroyed.
TeardownOrder ==
  /\ \A i \in Loops, j \in Loops :
       /\ Before(Step("beginShutdown", i), Step("stop", j))
       /\ Before(Step("stop", i), Step("wakerStop", j))
       /\ Before(Step("stop", i), Step("destroy", j))
       /\ Before(Step("destroy", i), Step("deleteThread", j))
       /\ Before(Step("destroy", i), Step("deleteWaker", j))
       /\ Before(Step("destroy", i), Step("freeArrays", 0))
       /\ Before(Step("deleteThread", i), Step("freeArrays", 0))
       /\ Before(Step("deleteWaker", i), Step("freeArrays", 0))
  /\ \A i \in Loops :
       /\ Taken(Step("wakerStop", i)) => (PosWaited # 0 /\ PosWaited < Pos(Step("wakerStop", i)))
       /\ Taken(Step("stop", i)) /\ PosWaited # 0 => Pos(Step("stop", i)) < PosWaited
       /\ Before(Step("wakerStop", i), Step("destroy", i))
       /\ i # 0 => Before(Step("destroy", i), Step("destroy", 0))
       /\ loopAlive[i] <=> ~Taken(Step("destroy", i))
       /\ ~loopAlive[i] => ~wakers[i].active
       /\ threadObj[i] = "deleted" <=> Taken(Step("deleteThread", i))
       /\ wakers[i].st = "freed" <=> Taken(Step("deleteWaker", i))
       /\ threadObj[i] = "deleted" \/ wakers[i].st = "freed" =>
            \A j \in Loops : ~loopAlive[j]
  /\ arrays = "freed" <=> Taken(Step("freeArrays", 0))
  /\ arrays = "freed" =>
       \A j \in Loops : ~loopAlive[j] /\ threadObj[j] = "deleted" /\ wakers[j].st = "freed"

\* the destructor has run to its end
TeardownOrderWitness ==
  /\ dpc = "done"
  /\ arrays = "freed"
  /\ \A i \in Loops : Taken(Step("beginShutdown", i)) /\ Taken(Step("destroy", i))

\* C6: when the pool is torn down while a caller's timer is still installed
\* and pending, no thread touches a destroyed poll context and no handleEvent
\* is delivered from one.
TeardownSafe ==
  (\E h \in LiveOfKind("timer") : watchers[h].active /\ dpc # "none") =>
    \A e \in uaf : e.what \notin {"loop", "delivered"}

\* C7: the destructor's wait polls isRunning at most MaxWaitPolls times, and
\* the destructor, once called, runs to its end whether or not the threads
\* ever exit.
TeardownTerminates ==
  /\ [](dpc = "wait" => di <= MaxWaitPolls)
  /\ (dpc # "none") ~> (dpc = "done")

\* the destructor has finished after using up its budget, with a thread that
\* has not exited
TeardownTerminatesWitness ==
  /\ dpc = "done"
  /\ Taken(Step("waited", MaxWaitPolls))
  /\ \E i \in Loops : pc[i] \notin {"exited", "faulted"}

(***************************************************************************)
(* Calls on a handle after uninstallEvent has deleted its watcher.  The    *)
(* operations test the handle for nullptr only, then use the object behind *)
(* it.  What the released memory holds is not the program's to decide: it  *)
(* still holds the stopped watcher ("intact"), or the allocator has given  *)
(* it to another object ("reused").                                        *)
(***************************************************************************)
MemStates == {"intact", "reused"}

Released(h) == h \in Handles /\ watchers[h].st = "freed"
ReleasedOfKind(k) == {h \in Handles : Released(h) /\ watchers[h].kind = k}

\* the call touches the released object: marks say how; on intact memory
\* ev_X_start and ev_X_stop act on the object as on any watcher
StaleTouch(op, h, mem, marks, ev) ==
  /\ PoolAlive
  /\ Released(h)
  /\ uaf' = uaf \cup {[what |-> m, id |-> h] : m \in marks}
  /\ IF mem = "intact" /\ ev = "start" /\ ~watchers[h].active
     THEN /\ reg' = RegAfterStart(h, watchers[h].loop)
          /\ activecnt' = CntAfterStart(h, watchers[h].loop)
          /\ watchers' = [watchers EXCEPT ![h].active = TRUE]
     ELSE IF mem = "intact" /\ ev = "stop" /\ watchers[h].active
     THEN /\ reg' = RegAfterStop(h)
          /\ activecnt' = CntAfterStop(h)
          /\ watchers' = [watchers EXCEPT ![h].active = FALSE]
     ELSE UNCHANGED <<reg, activecnt, watchers>>
  /\ call' = Call(op, NULL, h, NoError, NULL)
  /\ UNCHANGED <<loopAlive, loop_done, pendings, mn_now, wakers, threadVars,
                 envVars, dtorVars, cpc, handled, lastEvent, sends, sinceWake,
                 bursts, running>>

\* uninstallEvent reads the type tag; a tag of the switch stops the watcher
\* and deletes it a second time, any other tag falls through the switch
StaleUninstall(h, mem) ==
  IF mem = "intact" /\ watchers[h].type \in UninstallCases
  THEN StaleTouch("uninstallEvent", h, mem, {"read", "doublefree"}, "stop")
  ELSE StaleTouch("uninstallEvent", h, mem, {"read"}, "none")

\* ev_async_send stores the sent flag
StaleSendAsync(h, mem) ==
  StaleTouch("sendAsync", h, mem, {"write"}, "none")

\* ev_periodic_set and ev_periodic_again store and start
StaleRearmPeriodic(h, mem) ==
  StaleTouch("rearmPeriodic", h, mem, {"write"}, "start")

\* ev_io_start
StaleStartSocket(h, mem) ==
  StaleTouch("startSocketEvents", h, mem, {"write"}, "start")

\* ev_io_stop
StaleStopSocket(h, mem) ==
  StaleTouch("stopSocketEvents", h, mem, {"read"}, "stop")

\* ev_timer_stop
StaleClearTimer(h, mem) ==
  StaleTouch("clearTimer", h, mem, {"read"}, "stop")

\* ev_timer_set and ev_timer_again: a positive repeat starts, zero stops
StaleRearmTimer(h, mem, timeout) ==
  StaleTouch("rearmTimer", h, mem, {"write"}, IF timeout > 0 THEN "start" ELSE "stop")

NextStale ==
  \/ \E loop \in Loops, task \in Tasks : installAsyncEvent(loop, task)
  \/ \E loop \in Loops, task \in Tasks : installPeriodicEvent(loop, task, 0, 1)
  \/ \E loop \in Loops, task \in Tasks : installSignalEvent(loop, task, 1)
  \/ \E loop \in Loops, task \in Tasks :
       installSocketEvent(loop, {EVENT_SOCKET_READ}, task)
  \/ \E loop \in Loops, task \in Tasks, timeout \in Timeouts :
       installTimerEvent(loop, task, timeout)
  \/ \E h \in Handles : Live(h) /\ uninstallEvent(h)
  \/ \E h \in Handles, mem \in MemStates : StaleUninstall(h, mem)
  \/ \E h \in ReleasedOfKind("async"), mem \in MemStates : StaleSendAsync(h, mem)
  \/ \E h \in ReleasedOfKind("periodic"), mem \in MemStates : StaleRearmPeriodic(h, mem)
  \/ \E h \in ReleasedOfKind("socket"), mem \in MemStates : StaleStartSocket(h, mem)
  \/ \E h \in ReleasedOfKind("socket"), mem \in MemStates : StaleStopSocket(h, mem)
  \/ \E h \in ReleasedOfKind("timer"), mem \in MemStates : StaleClearTimer(h, mem)
  \/ \E h \in ReleasedOfKind("timer"), mem \in MemStates, timeout \in Timeouts :
       StaleRearmTimer(h, mem, timeout)

SpecStale == Init /\ [][NextStale]_vars

\* C8: once uninstallEvent has released the watcher of a handle, no later call
\* on the handle reads or writes the released object, deletes it again, or
\* leaves it registered with a loop.
StaleHandleInert ==
  \A h \in Handles :
    Released(h) =>
      /\ \A e \in uaf : e.id = h => e.what \notin {"read", "write", "doublefree"}
      /\ \A l \in Loops : h \notin reg[l]

(***************************************************************************)
(* The API called with every argument a caller can pass: loop indexes up   *)
(* to NrThreads, and the absent handle.                                    *)
(***************************************************************************)
MaxApi == 1         \* watchers allocated in this scenario

HandleOps ==
  {"uninstallEvent", "sendAsync", "startSocketEvents", "stopSocketEvents",
   "rearmPeriodic", "rearmTimer", "clearTimer"}

InstallOps ==
  {"installAsyncEvent", "installSocketEvent", "installPeriodicEvent",
   "installSignalEvent", "installTimerEvent"}

LoopOps == {"wakeupLoop", "eventLoop"} \cup InstallOps

Allocated == {h \in Handles : watchers[h].st # "none"}

NextApi ==
  \/ \E loop \in LoopArgs : wakeupLoop(loop)
  \/ \E loop \in LoopArgs : eventLoop(loop)
  \/ \E loop \in LoopArgs, task \in Tasks :
       Cardinality(Allocated) < MaxApi /\ installAsyncEvent(loop, task)
  \/ \E loop \in LoopArgs, task \in Tasks :
       Cardinality(Allocated) < MaxApi /\ installPeriodicEvent(loop, task, 0, 1)
  \/ \E loop \in LoopArgs, task \in Tasks :
       Cardinality(Allocated) < MaxApi /\ installSignalEvent(loop, task, 1)
  \/ \E loop \in LoopArgs, task \in Tasks :
       /\ Cardinality(Allocated) < MaxApi
       /\ installSocketEvent(loop, {EVENT_SOCKET_READ}, task)
  \/ \E loop \in LoopArgs, task \in Tasks, timeout \in Timeouts :
       Cardinality(Allocated) < MaxApi /\ installTimerEvent(loop, task, timeout)
  \/ \E h \in {NULL} \cup Handles : uninstallEvent(h)
  \/ \E h \in {NULL} \cup LiveOfKind("async") : sendAsync(h)
  \/ \E h \in {NULL} \cup LiveOfKind("periodic") : rearmPeriodic(h, 0, 1)
  \/ \E h \in {NULL} \cup LiveOfKind("socket") : startSocketEvents(h)
  \/ \E h \in {NULL} \cup LiveOfKind("socket") : stopSocketEvents(h)
  \/ \E h \in {NULL} \cup LiveOfKind("timer") : clearTimer(h)
  \/ \E h \in {NULL} \cup LiveOfKind("timer"), timeout \in Timeouts :
       rearmTimer(h, timeout)

SpecApi == Init /\ [][NextApi]_vars

\* C9: a call of uninstallEvent, sendAsync, startSocketEvents,
\* stopSocketEvents, rearmPeriodic, rearmTimer or clearTimer with the absent
\* handle raises no error and changes nothing of the loops, the threads or
\* the watchers.
NullHandleNoOp ==
  [][(call'.op \in HandleOps /\ call'.h = NULL) =>
       /\ call'.err = NoError
       /\ call'.ret = NULL
       /\ UNCHANGED <<loopVars, threadVars, watchers, envVars, dtorVars>>]_vars

\* the absent handle has just been passed while a watcher is installed and
\* its loop has been entered
NullHandleNoOpWitness ==
  /\ call.op \in HandleOps /\ call.h = NULL
  /\ \E h \in Handles : Live(h) /\ watchers[h].active /\ pc[watchers[h].loop] = "wait"

\* C10: a call of wakeupLoop, eventLoop or an install operation reports
\* "unknown loop" exactly when its loop index is NrThreads or more; a call
\* that reports it returns no handle and leaves every loop's registrations,
\* counts, wakers and threads as they were; an install that does not report
\* it returns the handle of a watcher registered with the loop of the index.
UnknownLoopReported ==
  [][call'.op \in LoopOps =>
       /\ call'.loop >= NrThreads <=> call'.err = UnknownLoop
       /\ call'.loop < NrThreads <=> call'.err = NoError
       /\ call'.err = UnknownLoop =>
            /\ call'.ret = NULL
            /\ UNCHANGED <<loopVars, threadVars>>
            /\ \A h \in Handles : watchers'[h].st = "live" <=> watchers[h].st = "live"
       /\ (call'.op \in InstallOps /\ call'.err = NoError) =>
            /\ call'.ret \in Handles
            /\ watchers'[call'.ret].st = "live"
            /\ watchers[call'.ret].st = "none"
            /\ reg'[call'.loop] = reg[call'.loop] \cup {call'.ret}]_vars

\* an install has just been refused for the index NrThreads while a wakeup
\* of a loop is outstanding
UnknownLoopReportedWitness ==
  /\ call.op \in InstallOps
  /\ call.loop = NrThreads
  /\ call.err = UnknownLoop
  /\ \E i \in Loops : wakers[i].sent

\* C11: a call of uninstallEvent on a handle whose watcher an earlier
\* uninstallEvent has released reports an error to the caller.
DoubleUninstallReported ==
  [][(call'.op = "uninstallEvent" /\ call'.h # NULL /\ Released(call'.h)) =>
       call'.err # NoError]_vars

(***************************************************************************)
(* Watchers of every kind whose events fire while their tasks go inactive. *)
(***************************************************************************)
MaxFiring == 1      \* watchers allocated in this scenario

\* the process receives signal s
RaiseSignal(s) ==
  /\ s \notin sigPending
  /\ \E h \in LiveOfKind("signal") : watchers[h].signum = s /\ watchers[h].active
  /\ sigPending' = sigPending \cup {s}
  /\ call' = NoCall
  /\ UNCHANGED <<loopVars, threadVars, watchers, taskActive, clock, dtorVars, cpc,
                 obsVars>>

NextFiring ==
  \/ \E i \in Loops : ThreadRun(i)
  \/ \E i \in Loops : \E fdev \in FdEvents(i) : Wake(i, fdev)
  \/ \E i \in Loops : \E p \in pendings[i] : InvokePending(i, p)
  \/ \E i \in Loops : HandlerReturn(i)
  \/ \E i \in Loops : LoopAgain(i)
  \/ \E loop \in Loops, task \in Tasks :
       Cardinality(Allocated) < MaxFiring /\ installAsyncEvent(loop, task)
  \/ \E loop \in Loops, task \in Tasks :
       Cardinality(Allocated) < MaxFiring /\ installPeriodicEvent(loop, task, 0, 1)
  \/ \E loop \in Loops, task \in Tasks :
       Cardinality(Allocated) < MaxFiring /\ installSignalEvent(loop, task, 1)
  \/ \E loop \in Loops, task \in Tasks :
       /\ Cardinality(Allocated) < MaxFiring
       /\ installSocketEvent(loop, {EVENT_SOCKET_READ, EVENT_SOCKET_WRITE}, task)
  \/ \E loop \in Loops, task \in Tasks, timeout \in Timeouts :
       Cardinality(Allocated) < MaxFiring /\ installTimerEvent(loop, task, timeout)
  \/ \E h \in LiveOfKind("async") : sendAsync(h)
  \/ RaiseSignal(1)
  \/ Tick
  \/ \E t \in Tasks : TaskDeactivate(t)

SpecFiring == Init /\ [][NextFiring]_vars

\* C12: handleEvent is invoked for a watcher only when its task is set and
\* answers isActive() at that moment; when a pending event is taken for a
\* watcher whose task is inactive, no handleEvent is invoked and the loop's
\* thread stays in its dispatch, with the unloop flag as it was.
ActiveTasksOnly ==
  [][/\ \A h \in Handles :
          handled'[h] # handled[h] =>
            /\ watchers[h].task # NULL
            /\ taskActive[watchers[h].task]
            /\ handled'[h] = handled[h] + 1
            /\ lastEvent'[h] # {}
     /\ \A i \in Loops : \A p \in pendings[i] \ pendings'[i] :
          ~taskActive[watchers[p.w].task] =>
            /\ handled'[p.w] = handled[p.w]
            /\ running'[i] = running[i]
            /\ pc'[i] = pc[i]
            /\ loop_done'[i] = loop_done[i]
            /\ uaf' = uaf]_vars

\* the event of a watcher of an inactive task has been taken and dropped, and
\* the loop has gone back to its poll
ActiveTasksOnlyWitness ==
  \E h \in Handles :
    /\ Live(h) /\ watchers[h].kind = "timer"
    /\ ~taskActive[watchers[h].task]
    /\ ~watchers[h].active /\ ~Pending(h)
    /\ handled[h] = 0
    /\ pc[watchers[h].loop] = "wait"

(***************************************************************************)
(* Timers that are installed and then left alone, on loops whose threads   *)
(* run and whose tasks stay active, while the time passes.                 *)
(***************************************************************************)
\* the steps of the thread of loop i when no descriptor is watched
TimedLoopStep(i) ==
  \/ ThreadRun(i)
  \/ Wake(i, <<>>)
  \/ \E p \in pendings[i] : InvokePending(i, p)
  \/ HandlerReturn(i)
  \/ LoopAgain(i)

NextTimer ==
  \/ \E i \in Loops : TimedLoopStep(i)
  \/ \E loop \in Loops, task \in Tasks, timeout \in Timeouts :
       installTimerEvent(loop, task, timeout)
  \/ Tick

SpecTimer == Init /\ [][NextTimer]_vars /\ \A i \in Loops : WF_vars(TimedLoopStep(i))

\* C13: a timer installed with timeout t and not rearmed is invoked at most
\* once, with EVENT_TIMER, and not before its loop's time has reached the
\* loop's time at the installation plus t; once that time has come it is
\* invoked, and from then on it is stopped and is not invoked again however
\* far the time advances.
TimerFiresOnce ==
  /\ [](\A h \in LiveOfKind("timer") :
          /\ handled[h] <= 1
          /\ watchers[h].repeat = 0
          /\ (handled[h] = 1 \/ Pending(h)) =>
               /\ ~watchers[h].active
               /\ h \notin reg[watchers[h].loop]
               /\ mn_now[watchers[h].loop] >= watchers[h].at
          /\ handled[h] = 1 => lastEvent[h] = {EVENT_TIMER}
          /\ (handled[h] = 0 /\ ~Pending(h)) =>
               watchers[h].active /\ h \in reg[watchers[h].loop])
  /\ [][\A h \in Handles :
          (call'.op = "installTimerEvent" /\ call'.ret = h) =>
            watchers'[h].at - mn_now[call'.loop] \in Timeouts]_vars
  /\ \A h \in Handles :
       (Live(h) /\ watchers[h].at <= clock) ~> (handled[h] = 1 /\ ~watchers[h].active)

\* a timer with a positive timeout has been invoked once, is stopped, and the
\* time has moved on past its expiry with the loop back at its poll
TimerFiresOnceWitness ==
  \E h \in LiveOfKind("timer") :
    /\ watchers[h].at > 0
    /\ handled[h] = 1
    /\ ~watchers[h].active
    /\ clock > watchers[h].at
    /\ mn_now[watchers[h].loop] = clock
    /\ pc[watchers[h].loop] = "wait"

(***************************************************************************)
(* Timers that callers rearm and clear while the loops run and the time    *)
(* passes.                                                                 *)
(***************************************************************************)
NextRearm ==
  \/ \E i \in Loops : TimedLoopStep(i)
  \/ \E loop \in Loops, task \in Tasks, timeout \in Timeouts :
       installTimerEvent(loop, task, timeout)
  \/ \E h \in LiveOfKind("timer"), timeout \in Timeouts : rearmTimer(h, timeout)
  \/ \E h \in LiveOfKind("timer") : clearTimer(h)
  \/ Tick

SpecRearm == Init /\ [][NextRearm]_vars

\* C14: rearmTimer(h, t) on a live timer leaves the timer started, with its
\* expiry t after the loop's time at the call and no earlier expiry pending,
\* whether the timer was running, had expired or had been stopped before.
RearmResets ==
  [][\A h \in LiveOfKind("timer") : \A t \in Timeouts :
       rearmTimer(h, t) =>
         /\ watchers'[h].active
         /\ h \in reg'[watchers[h].loop]
         /\ watchers'[h].at = mn_now[watchers[h].loop] + t
         /\ \A p \in pendings'[watchers[h].loop] : p.w # h]_vars

\* C15: a timer whose expiry the loop has taken is stopped, so that after an
\* installTimerEvent or a rearmTimer it expires at most once until rearmTimer
\* is called again.
TimerSingleShot ==
  \A h \in LiveOfKind("timer") : Pending(h) => ~watchers[h].active

(***************************************************************************)
(* Periodic watchers on running loops while the time passes.               *)
(***************************************************************************)
Offsets == 0 .. MaxTime
Intervals == 1 .. MaxTimeout

NextPeriodicEvents ==
  \/ \E i \in Loops : TimedLoopStep(i)
  \/ \E loop \in Loops, task \in Tasks, offset \in Offsets, interval \in Intervals :
       installPeriodicEvent(loop, task, offset, interval)
  \/ \E h \in LiveOfKind("periodic") : uninstallEvent(h)
  \/ Tick

SpecPeriodic == Init /\ [][NextPeriodicEvents]_vars

\* C16: a periodic watcher installed with a positive interval is first due
\* offset after the loop's time at the installation, and each time the loop
\* takes its expiry it is due again interval after the expiry taken, for as
\* long as it is installed.
PeriodicFromInstall ==
  [][/\ \A loop \in Loops, task \in Tasks, offset \in Offsets, interval \in Intervals :
          installPeriodicEvent(loop, task, offset, interval) =>
            /\ call'.ret \in Handles
            /\ watchers'[call'.ret].active
            /\ watchers'[call'.ret].at = mn_now[loop] + offset
     /\ \A h \in LiveOfKind("periodic") :
          (Live(h)' /\ watchers'[h].at # watchers[h].at) =>
            /\ watchers'[h].active
            /\ watchers'[h].at = watchers[h].at + watchers[h].interval]_vars

(***************************************************************************)
(* Socket watchers on running loops: descriptors become readable and       *)
(* writable while callers start and stop the watchers.                     *)
(***************************************************************************)
\* the EventType values a caller passes for a socket
SocketInterests ==
  {{EVENT_SOCKET_READ}, {EVENT_SOCKET_WRITE}, {EVENT_SOCKET_READ, EVENT_SOCKET_WRITE}}

NextSocket ==
  \/ \E i \in Loops : ThreadRun(i)
  \/ \E i \in Loops : \E fdev \in FdEvents(i) : Wake(i, fdev)
  \/ \E i \in Loops : \E p \in pendings[i] : InvokePending(i, p)
  \/ \E i \in Loops : HandlerReturn(i)
  \/ \E i \in Loops : LoopAgain(i)
  \/ \E loop \in Loops, type \in SocketInterests, task \in Tasks :
       installSocketEvent(loop, type, task)
  \/ \E h \in LiveOfKind("socket") : startSocketEvents(h)
  \/ \E h \in LiveOfKind("socket") : stopSocketEvents(h)

SpecSocket == Init /\ [][NextSocket]_vars

\* C17: a socket watcher is registered with its loop exactly while it is
\* active, and each loop counts every registered watcher once;
\* startSocketEvents leaves the watcher live, active and registered, and
\* changes nothing when it was active; stopSocketEvents leaves it live,
\* inactive, unregistered and without a pending event, and changes nothing
\* when it was inactive; a watcher started after a stop is polled again.
SocketToggle ==
  /\ [](\A h \in LiveOfKind("socket") :
          /\ watchers[h].active <=> h \in reg[watchers[h].loop]
          /\ watchers[h].active <=> h \in Registered(watchers[h].loop, "socket")
          /\ Pending(h) => watchers[h].active)
  /\ [](\A l \in Loops : activecnt[l] = Cardinality(reg[l]) + 1)
  /\ [][\A h \in LiveOfKind("socket") :
          /\ startSocketEvents(h) =>
               /\ watchers'[h].st = "live"
               /\ watchers'[h].active
               /\ h \in reg'[watchers[h].loop]
               /\ watchers[h].active =>
                    UNCHANGED <<reg, activecnt, watchers, pendings>>
               /\ ~watchers[h].active =>
                    activecnt'[watchers[h].loop] = activecnt[watchers[h].loop] + 1
          /\ stopSocketEvents(h) =>
               /\ watchers'[h].st = "live"
               /\ ~watchers'[h].active
               /\ h \notin reg'[watchers[h].loop]
               /\ \A p \in pendings'[watchers[h].loop] : p.w # h
               /\ ~watchers[h].active =>
                    UNCHANGED <<reg, activecnt, watchers, pendings>>
               /\ watchers[h].active =>
                    activecnt'[watchers[h].loop] = activecnt[watchers[h].loop] - 1]_vars

\* startSocketEvents has just been called on a watcher that has delivered an
\* event; the watcher is active and registered and its loop is at its poll
SocketToggleWitness ==
  \E h \in LiveOfKind("socket") :
    /\ call.op = "startSocketEvents" /\ call.h = h
    /\ handled[h] = 1
    /\ watchers[h].active
    /\ h \in reg[watchers[h].loop]
    /\ pc[watchers[h].loop] = "wait"

\* C18: the loop holds at most one pending event per socket watcher, made of
\* one or more of the conditions the watcher asked for; when it is invoked
\* for a watcher with an active task, handleEvent is called exactly once,
\* with EVENT_SOCKET_READ for a readable and EVENT_SOCKET_WRITE for a
\* writable descriptor, both in the one call when both fired.
SocketMaskExact ==
  /\ [](\A i \in Loops : \A h \in Handles :
          Cardinality({p \in pendings[i] : p.w = h}) <= 1)
  /\ [](\A i \in Loops : \A p \in pendings[i] :
          /\ p.revents # {}
          /\ p.revents \subseteq watchers[p.w].events)
  /\ [][\A i \in Loops : \A p \in pendings[i] :
          (watchers[p.w].kind = "socket" /\ InvokePending(i, p)) =>
            /\ handled'[p.w] = handled[p.w] + 1
            /\ \A q \in Handles \ {p.w} : handled'[q] = handled[q]
            /\ EVENT_SOCKET_READ \in lastEvent'[p.w] <=> EV_READ \in p.revents
            /\ EVENT_SOCKET_WRITE \in lastEvent'[p.w] <=> EV_WRITE \in p.revents
            /\ lastEvent'[p.w] \subseteq {EVENT_SOCKET_READ, EVENT_SOCKET_WRITE}]_vars

\* a watcher of both conditions has got both in its one handleEvent call
SocketMaskExactWitness ==
  \E h \in LiveOfKind("socket") :
    /\ watchers[h].events = {EV_READ, EV_WRITE}
    /\ handled[h] = 1
    /\ lastEvent[h] = {EVENT_SOCKET_READ, EVENT_SOCKET_WRITE}
    /\ ~Pending(h)

(***************************************************************************)
(* One watcher of any kind through its life: installed on a loop, fired,   *)
(* started, stopped, rearmed, signalled and uninstalled, with every loop's *)
(* thread running.                                                         *)
(***************************************************************************)
MaxBound == 1       \* watchers allocated in this scenario

NextBinding ==
  \/ \E i \in Loops : ThreadRun(i)
  \/ \E i \in Loops : \E fdev \in FdEvents(i) : Wake(i, fdev)
  \/ \E i \in Loops : \E p \in pendings[i] : InvokePending(i, p)
  \/ \E i \in Loops : HandlerReturn(i)
  \/ \E i \in Loops : LoopAgain(i)
  \/ \E loop \in Loops, task \in Tasks :
       Cardinality(Allocated) < MaxBound /\ installAsyncEvent(loop, task)
  \/ \E loop \in Loops, task \in Tasks :
       Cardinality(Allocated) < MaxBound /\ installPeriodicEvent(loop, task, 0, 1)
  \/ \E loop \in Loops, task \in Tasks :
       Cardinality(Allocated) < MaxBound /\ installSignalEvent(loop, task, 1)
  \/ \E loop \in Loops, task \in Tasks :
       /\ Cardinality(Allocated) < MaxBound
       /\ installSocketEvent(loop, {EVENT_SOCKET_READ}, task)
  \/ \E loop \in Loops, task \in Tasks, timeout \in Timeouts :
       Cardinality(Allocated) < MaxBound /\ installTimerEvent(loop, task, timeout)
  \/ \E h \in Handles : Live(h) /\ uninstallEvent(h)
  \/ \E h \in LiveOfKind("async") : sendAsync(h)
  \/ \E h \in LiveOfKind("periodic") : rearmPeriodic(h, 0, 1)
  \/ \E h \in LiveOfKind("socket") : startSocketEvents(h)
  \/ \E h \in LiveOfKind("socket") : stopSocketEvents(h)
  \/ \E h \in LiveOfKind("timer") : clearTimer(h)
  \/ \E h \in LiveOfKind("timer"), timeout \in Timeouts : rearmTimer(h, timeout)
  \/ RaiseSignal(1)
  \/ Tick

SpecBinding == Init /\ [][NextBinding]_vars

\* C19: a watcher is registered, pending and invoked on the loop it was
\* installed on and on no other; no step changes the loop of a watcher that
\* stays installed; and a call on a handle changes the registration table,
\* the active count and the pending events of the watcher's loop only.
BoundToLoop ==
  /\ [](\A l \in Loops :
          /\ \A h \in reg[l] : watchers[h].loop = l
          /\ \A p \in pendings[l] : watchers[p.w].loop = l
          /\ \A h \in running[l] : watchers[h].loop = l
          /\ cur[l] # NULL => watchers[cur[l]].loop = l)
  /\ [](\A h \in Handles : Live(h) => watchers[h].loop \in Loops)
  /\ [][\A h \in Handles :
          /\ (Live(h) /\ watchers'[h].st # "none") =>
               watchers'[h].loop = watchers[h].loop
          /\ (call'.op \in HandleOps /\ call'.h = h) =>
               \A l \in Loops \ {watchers[h].loop} :
                 /\ reg'[l] = reg[l]
                 /\ activecnt'[l] = activecnt[l]
                 /\ pendings'[l] = pendings[l]]_vars

\* the task of a watcher installed on the last loop is being invoked by that
\* loop's thread while a call on the watcher's handle has just been made
BoundToLoopWitness ==
  \E h \in Handles :
    /\ watchers[h].loop = NrThreads - 1
    /\ h \in running[NrThreads - 1]
    /\ call.op \in HandleOps /\ call.h = h

(***************************************************************************)
(* The life of one watcher as above, with callers that wake the loops up.  *)
(***************************************************************************)
NextReturn ==
  \/ NextBinding
  \/ \E loop \in Loops : wakeupLoop(loop)
  \/ \E i \in Loops : InvokeWaker(i)
  \/ \E i \in Loops : LoopReturn(i)

SpecReturn == Init /\ [][NextReturn]_vars

WakeupNotLost ==
  /\ [][\A i \in Loops :
          /\ (wakers[i].sent /\ ~wakers'[i].sent) =>
               pc[i] = "wait" /\ wakers'[i].pending
          /\ (pc[i] = "out" /\ pc'[i] # "out") =>
               /\ pc'[i] = "wait"
               /\ wakers'[i].sent = wakers[i].sent]_vars
  /\ \A i \in Loops : (pc[i] = "out" /\ wakers[i].sent) ~> wakers[i].pending
  /\ \A i \in Loops :
       wakers[i].pending ~> (pc[i] = "out" /\ loop_done[i] = EVUNLOOP_ALL)

\* wakeupLoop(i) has just been called between two eventLoop(i) calls: the
\* thread has returned from one and has not entered the next
WakeupNotLostWitness ==
  \E i \in Loops :
    /\ call.op = "wakeupLoop" /\ call.loop = i /\ call.err = NoError
    /\ pc[i] = "out" /\ loop_done[i] = EVUNLOOP_ALL
    /\ wakers[i].sent /\ ~wakers[i].pending

(***************************************************************************)
(* Watchers of every kind, sockets with every interest mask, installed on  *)
(* running loops and uninstalled while registered, stopped or pending.     *)
(***************************************************************************)
MaxUninstall == 2   \* watchers allocated in this scenario

NextUninstall ==
  \/ \E i \in Loops : ThreadRun(i)
  \/ \E i \in Loops : \E fdev \in FdEvents(i) : Wake(i, fdev)
  \/ \E i \in Loops : \E p \in pendings[i] : InvokePending(i, p)
  \/ \E i \in Loops : HandlerReturn(i)
  \/ \E i \in Loops : LoopAgain(i)
  \/ \E loop \in Loops, task \in Tasks :
       Cardinality(Allocated) < MaxUninstall /\ installAsyncEvent(loop, task)
  \/ \E loop \in Loops, task \in Tasks :
       Cardinality(Allocated) < MaxUninstall /\ installPeriodicEvent(loop, task, 0, 1)
  \/ \E loop \in Loops, task \in Tasks :
       Cardinality(Allocated) < MaxUninstall /\ installSignalEvent(loop, task, 1)
  \/ \E loop \in Loops, type \in SocketInterests, task \in Tasks :
       Cardinality(Allocated) < MaxUninstall /\ installSocketEvent(loop, type, task)
  \/ \E loop \in Loops, task \in Tasks, timeout \in Timeouts :
       Cardinality(Allocated) < MaxUninstall /\ installTimerEvent(loop, task, timeout)
  \/ \E h \in Handles : Live(h) /\ uninstallEvent(h)
  \/ \E h \in LiveOfKind("socket") : stopSocketEvents(h)
  \/ \E h \in LiveOfKind("timer") : clearTimer(h)

SpecUninstall == Init /\ [][NextUninstall]_vars

\* C22: every installed watcher carries a type tag that uninstallEvent has a
\* case for, and a socket watcher's tag is EVENT_SOCKET_READ whatever
\* interest it was installed with; uninstallEvent on an installed watcher
\* releases it and leaves it unregistered, without a pending event and not
\* counted by its loop, and touches no other watcher; a released watcher is
\* never registered or pending again.
UninstallReleases ==
  /\ [](\A h \in Handles : Live(h) => watchers[h].type \in UninstallCases)
  /\ [](\A h \in LiveOfKind("socket") : watchers[h].type = EVENT_SOCKET_READ)
  /\ [](\A h \in Handles : Released(h) =>
          /\ ~watchers[h].active
          /\ ~Pending(h)
          /\ \A l \in Loops : h \notin reg[l])
  /\ [](\A l \in Loops : activecnt[l] = Cardinality(reg[l]) + 1)
  /\ [][\A h \in Handles :
          (Live(h) /\ uninstallEvent(h)) =>
            /\ Released(h)'
            /\ \A l \in Loops :
                 /\ reg'[l] = reg[l] \ {h}
                 /\ pendings'[l] = {p \in pendings[l] : p.w # h}
            /\ \A g \in Handles \ {h} : watchers'[g] = watchers[g]]_vars

\* a socket installed for writing only has been uninstalled while it was
\* registered with its loop, and is released
UninstallReleasesWitness ==
  \E h \in Handles :
    /\ call.op = "uninstallEvent" /\ call.h = h
    /\ Released(h)
    /\ watchers[h].kind = "socket"
    /\ watchers[h].events = {EV_WRITE}

(***************************************************************************)
(* One timer that callers clear, rearm and uninstall while the loops run   *)
(* and the time passes.                                                    *)
(***************************************************************************)
MaxClear == 1       \* watchers allocated in this scenario

NextClear ==
  \/ \E i \in Loops : TimedLoopStep(i)
  \/ \E loop \in Loops, task \in Tasks, timeout \in Timeouts :
       Cardinality(Allocated) < MaxClear /\ installTimerEvent(loop, task, timeout)
  \/ \E h \in LiveOfKind("timer") : clearTimer(h)
  \/ \E h \in LiveOfKind("timer"), timeout \in Timeouts : rearmTimer(h, timeout)
  \/ \E h \in LiveOfKind("timer") : uninstallEvent(h)
  \/ Tick

SpecClear == Init /\ [][NextClear]_vars /\ \A i \in Loops : WF_vars(TimedLoopStep(i))

\* a timer that is stopped and has no expiry waiting to be handled
Dormant(h) == Live(h) /\ ~watchers[h].active /\ ~Pending(h)

\* C23: clearTimer(h) on a live timer leaves the handle live and the timer
\* dormant (stopped, unregistered, no expiry pending), and changes nothing
\* when the timer was dormant; a dormant timer is not invoked and stays
\* dormant until rearmTimer is called on it; rearmTimer(h, t) on a dormant
\* timer starts it, with its expiry t after the loop's time, and a started
\* timer whose expiry has come is taken by its loop; uninstallEvent on a
\* live timer, cleared or not, releases it and each loop still counts every
\* registered watcher once.
ClearTimerDormant ==
  /\ [][\A h \in LiveOfKind("timer") :
          clearTimer(h) =>
            /\ Dormant(h)'
            /\ Dormant(h) =>
                 /\ watchers' = watchers /\ reg' = reg
                 /\ activecnt' = activecnt /\ pendings' = pendings]_vars
  /\ [][\A h \in Handles :
          Dormant(h) =>
            /\ handled'[h] = handled[h]
            /\ Live(h)' => ~Pending(h)'
            /\ (Live(h)' /\ watchers'[h].active) =>
                 call'.op = "rearmTimer" /\ call'.h = h]_vars
  /\ [][\A h \in Handles : \A t \in Timeouts :
          (Dormant(h) /\ rearmTimer(h, t)) =>
            /\ watchers'[h].active
            /\ h \in reg'[watchers[h].loop]
            /\ watchers'[h].at = mn_now[watchers[h].loop] + t]_vars
  /\ \A h \in Handles :
       (Live(h) /\ watchers[h].active /\ watchers[h].at <= clock)
         ~> (~Live(h) \/ ~watchers[h].active \/ Pending(h) \/ watchers[h].at > clock)
  /\ [][\A h \in LiveOfKind("timer") :
          uninstallEvent(h) =>
            /\ Released(h)'
            /\ ~Pending(h)'
            /\ \A l \in Loops : h \notin reg'[l]]_vars
  /\ [](\A l \in Loops : activecnt[l] = Cardinality(reg[l]) + 1)
  /\ [][\A h \in Handles : Released(h) => Released(h)']_vars

====
